---- MODULE Spec2Model ----
(***************************************************************************)
(* DrizzleDatabase (src/src/store.ts): the status row (height, hash,       *)
(* nonce) of a block processor kept in Postgres, connect() and transact(). *)
(* Several processes share one database; each runs one call at a time and  *)
(* every call runs in its own SQL transaction.  A transaction's writes     *)
(* become visible to the others when it commits.                           *)
(*                                                                         *)
(* The database is Postgres, as the README requires:                       *)
(*  - a write and the commit that follows it are one step: between the two *)
(*    the writer holds the row lock, a concurrent writer of the same row   *)
(*    waits for the commit and readers still see the old row, so every     *)
(*    interleaving equals one in which the write happens at the commit;    *)
(*  - READ COMMITTED (the default) and READ UNCOMMITTED evaluate each      *)
(*    statement on the rows committed when it runs: an UPDATE whose WHERE  *)
(*    no longer matches affects zero rows and raises nothing;              *)
(*  - REPEATABLE READ and SERIALIZABLE raise a serialization failure when  *)
(*    the row to update was changed after the transaction's snapshot;      *)
(*  - an INSERT of a key another transaction committed raises a            *)
(*    duplicate-key error;                                                 *)
(*  - CREATE ... IF NOT EXISTS is kept to its contract: after a committed  *)
(*    connect the schema and tables exist.  Two transactions creating them *)
(*    at once end like two inserting the same key: the later one fails.    *)
(* getState's two SELECTs are one step: connect and transact do not write  *)
(* hot_block, so both see the same hot blocks whenever they run.           *)
(* transactHot2, which would write hot_block, is commented out in the      *)
(* source; it is modelled as written, in a specification of its own.       *)
(***************************************************************************)
EXTENDS Integers, Sequences, FiniteSets, TLC

\* ---------------------------------------------------------------- bounds
MaxOps == 3          \* connect/transact calls started, all processes together
MaxHeight == 0       \* block heights of the heads passed in are -1..MaxHeight
MaxReconciles == 1   \* transactHot2 calls of a process

\* promise-retry's default number of retries (transact passes no options)
Retries == 10

Procs == {1, 2}         \* the processes sharing the database
Hashes == {"0x", "a"}
Heights == (-1)..MaxHeight
Heads == [height : Heights, hash : Hashes]
Infos == [prevHead : Heads, nextHead : Heads]

\* type IsolationLevel, and "undefined" when the option is not given
IsolationLevel == {"read uncommitted", "read committed", "repeatable read", "serializable"}
IsolationOptions == IsolationLevel \cup {"undefined"}

RACE_MSG == "status table was updated by foreign process, make sure no other processor is running"
ASSERT_MSG == "AssertionError"
CHAIN_MSG == "blocks must form a continuous chain"
UNIQUE_MSG == "duplicate key value violates unique constraint"
SERIALIZATION_MSG == "could not serialize access due to concurrent update"
NO_TABLE_MSG == "relation does not exist"
CB_MSG == "callback error"

VARIABLES
    isolationLevel,  \* this.isolationLevel
    tables,          \* committed: the schema and its three tables exist
    status,          \* committed rows of <schema>.status with id = 0: <<[height, hash, nonce]>>
    hot_block,       \* committed rows of <schema>.hot_block: set of [height, hash]
    domain,          \* committed rows written by callbacks, one per attempt: <<proc, call, attempt>>
    advanced,        \* attempts whose UPDATE changed a status row and committed
    ops,             \* calls started so far
    pc,              \* per process: position in its call
    op,              \* per process: the call it runs or ran last
    calls,           \* per process: number of calls started
    info,            \* per process: FinalTxInfo of the transact call
    attempt,         \* per process: attempts made in the current transact call
    state,           \* per process: DatabaseState loaded by the current transaction
    found,           \* per process: number of status rows the load found
    cbCalls,         \* per process: callback invocations in the current call
    rows,            \* per process: rows affected by the UPDATE of the last attempt
    result,          \* per process: outcome of the call
    hinfo,           \* per process: HotTxInfo of the transactHot2 call
    events           \* per process: callback invocations and hot-block inserts of the call

vars == <<isolationLevel, tables, status, hot_block, domain, advanced, ops, pc, op,
          calls, info, attempt, state, found, cbCalls, rows, result, hinfo, events>>

NoHead == [height |-> -2, hash |-> ""]
NoInfo == [prevHead |-> NoHead, nextHead |-> NoHead]
NoState == [height |-> -2, hash |-> "", nonce |-> -1, top |-> <<>>]
SeedRow == [height |-> -1, hash |-> "0x", nonce |-> 0]
NoHotInfo == [finalizedHead |-> NoHead, baseHead |-> NoHead, newBlocks |-> <<>>]

\* ---------------------------------------------------------------- helpers
Min(S) == CHOOSE x \in S : \A y \in S : x <= y

\* SELECT height, hash FROM hot_block ORDER BY height (height is the primary key)
RECURSIVE OrderByHeight(_)
OrderByHeight(S) ==
    IF S = {} THEN <<>>
    ELSE LET h == Min({b.height : b \in S})
             b == CHOOSE x \in S : x.height = h
         IN <<b>> \o OrderByHeight(S \ {b})

\* Postgres: REPEATABLE READ and SERIALIZABLE read one snapshot per transaction,
\* the other levels (and the default, READ COMMITTED) one per statement
Snapshot(level) == level \in {"repeatable read", "serializable"}

IsSafeInteger(n) == n \in Int   \* the column is int4

\* variant: the comparison is >= (a gap in the chain passes)
assertChainContinuityGaps(base, chain) ==
    \A i \in 1..Len(chain) :
        chain[i].height >= (IF i = 1 THEN base.height ELSE chain[i-1].height) + 1

assertChainContinuity(base, chain) ==
    \A i \in 1..Len(chain) :
        chain[i].height = (IF i = 1 THEN base.height ELSE chain[i-1].height) + 1

\* "ok" or the message of the assertion that fails
assertStateInvariants(st) ==
    IF ~IsSafeInteger(st.height) THEN ASSERT_MSG
    ELSE IF ~assertChainContinuity(st, st.top) THEN CHAIN_MSG
    ELSE "ok"

MkState(row, top) ==
    [height |-> row.height, hash |-> row.hash, nonce |-> row.nonce, top |-> top]

StatusRow(st) == [height |-> st.height, hash |-> st.hash, nonce |-> st.nonce]

\* variant: every error is handed to retry
RetryAlways(err) == TRUE

\* promiseRetry runs the attempt again only when the attempt called retry(err)
RetryCalled(err) == FALSE

\* variant: the callback's rows are written outside the transaction
AfterRollbackKeepsWrites(committed, id) == committed \cup {id}

\* db.transaction rolls back when its body throws: the rows the attempt wrote
\* through tx are dropped, the committed ones stay
AfterRollback(committed, id) == committed

\* ---------------------------------------------------------------- Init
Init ==
    /\ isolationLevel \in IsolationOptions
    /\ tables = FALSE
    /\ status = <<>>
    /\ hot_block = {}
    /\ domain = {}
    /\ advanced = {}
    /\ ops = 0
    /\ pc = [p \in Procs |-> "idle"]
    /\ op = [p \in Procs |-> "none"]
    /\ calls = [p \in Procs |-> 0]
    /\ info = [p \in Procs |-> NoInfo]
    /\ attempt = [p \in Procs |-> 0]
    /\ state = [p \in Procs |-> NoState]
    /\ found = [p \in Procs |-> -1]
    /\ cbCalls = [p \in Procs |-> 0]
    /\ rows = [p \in Procs |-> -1]
    /\ result = [p \in Procs |-> "none"]
    /\ hinfo = [p \in Procs |-> NoHotInfo]
    /\ events = [p \in Procs |-> <<>>]


\* ---------------------------------------------------------------- connect
\* variant: the seed row is inserted whatever the SELECT returned
ConnectAlwaysInserts(n) == TRUE

\* status.length == 0: the row is inserted and pushed
ConnectNeedsInsert(n) == n = 0

\* variant: the id column is no key
NoPrimaryKey(committed) == FALSE

\* id int4 primary key: a second row with id = 0 is refused
PrimaryKeyConflict(committed) == Len(committed) > 0

\* connect(), first part: open the transaction, CREATE ... IF NOT EXISTS,
\* SELECT the status row.  Tables created by this transaction are empty.
Connect(p) ==
    /\ pc[p] = "idle"
    /\ ops < MaxOps
    /\ ops' = ops + 1
    /\ calls' = [calls EXCEPT ![p] = @ + 1]
    /\ op' = [op EXCEPT ![p] = "connect"]
    /\ info' = [info EXCEPT ![p] = NoInfo]
    /\ attempt' = [attempt EXCEPT ![p] = 0]
    /\ cbCalls' = [cbCalls EXCEPT ![p] = 0]
    /\ rows' = [rows EXCEPT ![p] = -1]
    /\ result' = [result EXCEPT ![p] = "pending"]
    /\ found' = [found EXCEPT ![p] = IF tables THEN Len(status) ELSE 0]
    /\ state' = [state EXCEPT ![p] =
                    IF tables /\ Len(status) > 0 THEN MkState(status[1], <<>>) ELSE NoState]
    /\ pc' = [pc EXCEPT ![p] = "c_loaded"]
    /\ UNCHANGED <<isolationLevel, tables, status, hot_block, domain, advanced, hinfo, events>>

\* connect(), second part: INSERT the seed row when none was found, SELECT the
\* hot blocks, assertStateInvariants, commit.  An error rolls the transaction back.
ConnectFinish(p) ==
    /\ pc[p] = "c_loaded"
    /\ LET insert == ConnectNeedsInsert(found[p])
           conflict == insert /\ PrimaryKeyConflict(IF tables THEN status ELSE <<>>)
           row == IF insert THEN SeedRow ELSE StatusRow(state[p])
           top == IF tables THEN OrderByHeight(hot_block) ELSE <<>>
           st == MkState(row, top)
           err == IF conflict THEN UNIQUE_MSG ELSE assertStateInvariants(st)
       IN /\ result' = [result EXCEPT ![p] = err]
          /\ state' = [state EXCEPT ![p] = IF conflict THEN NoState ELSE st]
          /\ tables' = (tables \/ err = "ok")
          /\ status' = IF err = "ok" /\ insert THEN status \o <<SeedRow>> ELSE status
    /\ pc' = [pc EXCEPT ![p] = "idle"]
    /\ UNCHANGED <<isolationLevel, hot_block, domain, advanced, ops, op, calls, info,
                   attempt, found, cbCalls, rows, hinfo, events>>

\* ---------------------------------------------------------------- transact
\* getState(tx): "ok" or the error it throws
getState(tablesNow, committed, hot) ==
    IF ~tablesNow THEN NO_TABLE_MSG
    ELSE IF Len(committed) # 1 THEN ASSERT_MSG
    ELSE assertStateInvariants(MkState(committed[1], OrderByHeight(hot)))

\* variant: the two asserts on nextHead are missing
HeadChecksNoNext(st, i) ==
    IF st.hash # i.prevHead.hash THEN RACE_MSG
    ELSE IF st.height # i.prevHead.height THEN ASSERT_MSG
    ELSE "ok"

\* variant: the assert on the hash is missing
HeadChecksNoHash(st, i) ==
    IF st.height # i.prevHead.height THEN ASSERT_MSG
    ELSE IF ~(i.prevHead.height < i.nextHead.height) THEN ASSERT_MSG
    ELSE IF ~(i.prevHead.hash # i.nextHead.hash) THEN ASSERT_MSG
    ELSE "ok"

\* variant: the assert that the height grows is missing
HeadChecksNoHeight(st, i) ==
    IF st.hash # i.prevHead.hash THEN RACE_MSG
    ELSE IF st.height # i.prevHead.height THEN ASSERT_MSG
    ELSE IF ~(i.prevHead.hash # i.nextHead.hash) THEN ASSERT_MSG
    ELSE "ok"

\* the four asserts of transact: "ok" or the message of the first that fails
HeadChecks(st, i) ==
    IF st.hash # i.prevHead.hash THEN RACE_MSG
    ELSE IF st.height # i.prevHead.height THEN ASSERT_MSG
    ELSE IF ~(i.prevHead.height < i.nextHead.height) THEN ASSERT_MSG
    ELSE IF ~(i.prevHead.hash # i.nextHead.hash) THEN ASSERT_MSG
    ELSE "ok"

\* attempt n threw err: the transaction is rolled back; promiseRetry runs the
\* attempt again if retry(err) was called and retries are left, else rejects.
\* result keeps the error of the last attempt; the call is over when pc = "idle".
Fail(p, n, err) ==
    LET again == RetryCalled(err) /\ n <= Retries
    IN /\ result' = [result EXCEPT ![p] = err]
       /\ pc' = [pc EXCEPT ![p] = IF again THEN "t_retry" ELSE "idle"]

\* transact(info, cb) is called (pc = "idle"), or promiseRetry runs the attempt
\* again (pc = "t_retry"); then one attempt up to the callback: open the
\* transaction, getState, the four asserts
Transact(p, i) ==
    /\ \/ pc[p] = "idle" /\ ops < MaxOps
       \/ pc[p] = "t_retry" /\ i = info[p]
    /\ LET first == pc[p] = "idle"
           n == IF first THEN 1 ELSE attempt[p] + 1
           loadErr == getState(tables, status, hot_block)
           loaded == tables /\ Len(status) = 1
           st == IF loaded THEN MkState(status[1], OrderByHeight(hot_block)) ELSE NoState
           err == IF loadErr # "ok" THEN loadErr ELSE HeadChecks(st, i)
       IN /\ ops' = IF first THEN ops + 1 ELSE ops
          /\ calls' = IF first THEN [calls EXCEPT ![p] = @ + 1] ELSE calls
          /\ op' = [op EXCEPT ![p] = "transact"]
          /\ info' = [info EXCEPT ![p] = i]
          /\ attempt' = [attempt EXCEPT ![p] = n]
          /\ cbCalls' = IF first THEN [cbCalls EXCEPT ![p] = 0] ELSE cbCalls
          /\ rows' = [rows EXCEPT ![p] = -1]
          /\ found' = [found EXCEPT ![p] = IF tables THEN Len(status) ELSE -1]
          /\ state' = [state EXCEPT ![p] = st]
          /\ IF err = "ok"
             THEN /\ pc' = [pc EXCEPT ![p] = "t_cb"]
                  /\ result' = [result EXCEPT ![p] = "pending"]
             ELSE Fail(p, n, err)
    /\ UNCHANGED <<isolationLevel, tables, status, hot_block, domain, advanced, hinfo, events>>

\* await cb(tx): the callback writes through tx, or throws
Callback(p, throws) ==
    /\ pc[p] = "t_cb"
    /\ cbCalls' = [cbCalls EXCEPT ![p] = @ + 1]
    /\ IF throws
       THEN /\ Fail(p, attempt[p], CB_MSG)
            /\ domain' = AfterRollback(domain, <<p, calls[p], attempt[p]>>)
       ELSE /\ pc' = [pc EXCEPT ![p] = "t_update"]
            /\ UNCHANGED <<result, domain>>
    /\ UNCHANGED <<isolationLevel, tables, status, hot_block, advanced, ops, op,
                   calls, info, attempt, state, found, rows, hinfo, events>>

\* variant: WHERE id = 0, the nonce is not compared
MatchesAnyNonce(committed, nonce) == DOMAIN committed

\* WHERE id = 0 AND nonce = ${nonce}
Matches(committed, nonce) == {k \in DOMAIN committed : committed[k].nonce = nonce}

\* SET height = ${next.height}, hash = ${next.hash}, nonce = nonce + 1
ApplyUpdate(committed, nonce, next) ==
    [k \in DOMAIN committed |->
        IF k \in Matches(committed, nonce)
        THEN [height |-> next.height, hash |-> next.hash, nonce |-> committed[k].nonce + 1]
        ELSE committed[k]]

\* "ok" or the error updateStatus throws.  The statement's row count is not read.
\* Postgres itself refuses, under a snapshot level, to update a row that another
\* transaction changed after the snapshot was taken.
UpdateError(level, committed, st) ==
    IF Snapshot(level) /\ committed # <<StatusRow(st)>> THEN SERIALIZATION_MSG ELSE "ok"

\* await this.updateStatus(tx, state.nonce, next), then the commit of the
\* transaction: the callback's rows and the status row become visible together
UpdateStatus(p) ==
    /\ pc[p] = "t_update"
    /\ LET err == UpdateError(isolationLevel, status, state[p])
           n == Cardinality(Matches(status, state[p].nonce))
           id == <<p, calls[p], attempt[p]>>
       IN IF err = "ok"
          THEN /\ status' = ApplyUpdate(status, state[p].nonce, info[p].nextHead)
               /\ rows' = [rows EXCEPT ![p] = n]
               /\ domain' = domain \cup {id}
               /\ advanced' = IF n > 0 THEN advanced \cup {id} ELSE advanced
               /\ result' = [result EXCEPT ![p] = "ok"]
               /\ pc' = [pc EXCEPT ![p] = "idle"]
          ELSE /\ Fail(p, attempt[p], err)
               /\ domain' = AfterRollback(domain, id)
               /\ UNCHANGED <<status, rows, advanced>>
    /\ UNCHANGED <<isolationLevel, tables, hot_block, ops, op, calls, info, attempt,
                   state, found, cbCalls, hinfo, events>>

Next ==
    \/ \E p \in Procs : Connect(p)
    \/ \E p \in Procs : ConnectFinish(p)
    \/ \E p \in Procs, i \in Infos : Transact(p, i)
    \/ \E p \in Procs, throws \in BOOLEAN : Callback(p, throws)
    \/ \E p \in Procs : UpdateStatus(p)

Spec == Init /\ [][Next]_vars

\* A database that was provisioned and written before this program connects
\* (the tables are those of the store this one is adapted from, which writes
\* hot blocks): no status row or one, and hot-block rows that continue the
\* head or do not.
CraftedRows == {SeedRow, [height |-> 0, hash |-> "a", nonce |-> 1]}
CraftedHot == {{},
               {[height |-> 1, hash |-> "a"]},
               {[height |-> 0, hash |-> "a"], [height |-> 1, hash |-> "a"]}}

InitCrafted ==
    /\ isolationLevel = "undefined"
    /\ tables = TRUE
    /\ \/ status = <<>> /\ hot_block = {}
       \/ status \in {<<r>> : r \in CraftedRows} /\ hot_block \in CraftedHot
    /\ domain = {}
    /\ advanced = {}
    /\ ops = 0
    /\ pc = [p \in Procs |-> "idle"]
    /\ op = [p \in Procs |-> "none"]
    /\ calls = [p \in Procs |-> 0]
    /\ info = [p \in Procs |-> NoInfo]
    /\ attempt = [p \in Procs |-> 0]
    /\ state = [p \in Procs |-> NoState]
    /\ found = [p \in Procs |-> -1]
    /\ cbCalls = [p \in Procs |-> 0]
    /\ rows = [p \in Procs |-> -1]
    /\ result = [p \in Procs |-> "none"]
    /\ hinfo = [p \in Procs |-> NoHotInfo]
    /\ events = [p \in Procs |-> <<>>]

SpecCrafted == InitCrafted /\ [][Next]_vars

\* ---------------------------------------------------------------- transactHot2
\* transactHot2(info, cb) as written in the commented-out block of store.ts.
\* The whole call is one transaction, taken here as one step of one process;
\* how it interleaves with other writers of the status row is that of
\* transact, whose getState and updateStatus it shares.  The callback returns.
MaxNew == 2          \* blocks in info.newBlocks

HotProc == CHOOSE p \in Procs : TRUE
Block(h, x) == [height |-> h, hash |-> x]
HeldBlocks == {Block(0, "a"), Block(1, "b")}
ForkBlocks == {Block(0, "a2"), Block(1, "b2"), Block(2, "c2")}
HotHeads == {Block(SeedRow.height, SeedRow.hash)} \cup HeldBlocks \cup ForkBlocks
HotInfos == [finalizedHead : HotHeads, baseHead : HotHeads,
             newBlocks : UNION {[1..n -> ForkBlocks] : n \in 0..MaxNew}]

\* the events a call leaves behind: cb(tx, beg, end) and insertHotBlock(tx, newBlocks[beg])
CbEvent(beg, end) == [kind |-> "cb", beg |-> beg, end |-> end]
InsertEvent(i) == [kind |-> "insert", beg |-> i, end |-> i + 1]

\* let chain = [state, ...state.top]
ChainOf(st) == <<Block(st.height, st.hash)>> \o st.top

\* const rollbackPos = info.baseHead.height + 1 - chain[0].height
rollbackPos(chain, hi) == hi.baseHead.height + 1 - chain[1].height

\* the asserts of transactHot2 before the rollback loop: "ok" or the message
\* of the first that fails
ReconcileChecks(chain, hi) ==
    LET nb == hi.newBlocks
        last == IF Len(nb) > 0 THEN nb[Len(nb)] ELSE hi.baseHead
    IN IF ~assertChainContinuity(hi.baseHead, nb) THEN CHAIN_MSG
       ELSE IF ~(hi.finalizedHead.height <= last.height) THEN ASSERT_MSG
       ELSE IF ~(\E k \in DOMAIN chain : chain[k].hash = hi.baseHead.hash) THEN RACE_MSG
       ELSE IF Len(nb) = 0 /\ chain[Len(chain)].hash # hi.baseHead.hash THEN RACE_MSG
       ELSE IF ~(chain[1].height <= hi.finalizedHead.height) THEN RACE_MSG
       ELSE IF ~(rollbackPos(chain, hi) >= 0) THEN ASSERT_MSG
       ELSE "ok"

\* rollbackBlock(statusSchema, tx, blockHeight): its body is a TODO, no row is touched
rollbackBlock(hot, blockHeight) == hot

\* for (let i = chain.length - 1; i >= rollbackPos; i--) rollbackBlock(chain[i].height)
\* (i counts from 0 as in the source)
RECURSIVE RollbackLoop(_, _, _, _)
RollbackLoop(hot, chain, i, pos) ==
    IF i < pos THEN hot
    ELSE RollbackLoop(rollbackBlock(hot, chain[i + 1].height), chain, i - 1, pos)

\* finalizedEnd after the if/else: the number of leading new blocks that are final
finalizedEnd(hi) ==
    LET fe == hi.finalizedHead.height - hi.newBlocks[1].height + 1
    IN IF fe > 0 THEN fe ELSE 0

\* hot_block (height int4 primary key): the INSERT fails on a height that is held
InsertConflict(hot, b) == \E r \in hot : r.height = b.height

\* INSERT INTO hot_block (height, hash) VALUES (block.height, block.hash)
insertHotBlock(hot, b) == hot \cup {b}

\* for (let i = finalizedEnd; i < newBlocks.length; i++) { insertHotBlock(b); cb(tx, i, i + 1) }
\* (i counts from 0): the rows and events when the loop ends or an INSERT throws
RECURSIVE InsertLoop(_, _, _, _)
InsertLoop(nb, i, hot, ev) ==
    IF i >= Len(nb) THEN [err |-> "ok", hot |-> hot, events |-> ev]
    ELSE IF InsertConflict(hot, nb[i + 1])
         THEN [err |-> UNIQUE_MSG, hot |-> hot, events |-> ev]
         ELSE InsertLoop(nb, i + 1, insertHotBlock(hot, nb[i + 1]),
                         ev \o <<InsertEvent(i), CbEvent(i, i + 1)>>)

\* if (newBlocks.length) { cb(tx, 0, finalizedEnd) when finalizedEnd > 0; the loop }
ApplyNewBlocks(hot, hi) ==
    IF Len(hi.newBlocks) = 0 THEN [err |-> "ok", hot |-> hot, events |-> <<>>]
    ELSE LET fe == finalizedEnd(hi)
         IN InsertLoop(hi.newBlocks, fe, hot,
                       IF fe > 0 THEN <<CbEvent(0, fe)>> ELSE <<>>)

\* chain = chain.slice(0, rollbackPos).concat(newBlocks) and the two asserts on it
FinalCheck(chain, hi) ==
    LET pos == rollbackPos(chain, hi)
        kept == SubSeq(chain, 1, IF pos < Len(chain) THEN pos ELSE Len(chain))
        merged == kept \o hi.newBlocks
        finalizedHeadPos == hi.finalizedHead.height - chain[1].height
    IN IF Len(merged) = 0 THEN ASSERT_MSG
       ELSE IF finalizedHeadPos + 1 \notin DOMAIN merged THEN ASSERT_MSG
       ELSE IF merged[finalizedHeadPos + 1].hash # hi.finalizedHead.hash THEN ASSERT_MSG
       ELSE "ok"

\* DELETE FROM hot_block WHERE height <= finalizedHeight
deleteHotBlocks(hot, finalizedHeight) == {b \in hot : b.height > finalizedHeight}

\* transactHot2(info, cb): getState, the asserts, the rollback loop, the
\* callbacks and inserts, the asserts on the new chain, deleteHotBlocks,
\* updateStatus, commit.  An error rolls everything back and rejects the call
\* (retry is not called here either).
Reconcile(p, hi) ==
    /\ pc[p] = "idle" /\ ops < MaxOps /\ calls[p] < MaxReconciles
    /\ LET loadErr == getState(tables, status, hot_block)
           loaded == tables /\ Len(status) = 1
           st == IF loaded THEN MkState(status[1], OrderByHeight(hot_block)) ELSE NoState
           chain == ChainOf(st)
           pre == IF loadErr # "ok" THEN loadErr ELSE ReconcileChecks(chain, hi)
           rolled == RollbackLoop(hot_block, chain, Len(chain) - 1, rollbackPos(chain, hi))
           new == IF pre = "ok" THEN ApplyNewBlocks(rolled, hi)
                  ELSE [err |-> pre, hot |-> hot_block, events |-> <<>>]
           post == IF new.err # "ok" THEN new.err ELSE FinalCheck(chain, hi)
           err == IF post # "ok" THEN post ELSE UpdateError(isolationLevel, status, st)
           n == Cardinality(Matches(status, st.nonce))
           id == <<p, calls[p] + 1, 1>>
       IN /\ ops' = ops + 1
          /\ calls' = [calls EXCEPT ![p] = @ + 1]
          /\ op' = [op EXCEPT ![p] = "reconcile"]
          /\ hinfo' = [hinfo EXCEPT ![p] = hi]
          /\ attempt' = [attempt EXCEPT ![p] = 1]
          /\ found' = [found EXCEPT ![p] = IF tables THEN Len(status) ELSE -1]
          /\ state' = [state EXCEPT ![p] = st]
          /\ events' = [events EXCEPT ![p] = new.events]
          /\ cbCalls' = [cbCalls EXCEPT ![p] =
                            Cardinality({k \in DOMAIN new.events : new.events[k].kind = "cb"})]
          /\ IF err = "ok"
             THEN /\ hot_block' = deleteHotBlocks(new.hot, hi.finalizedHead.height)
                  /\ status' = ApplyUpdate(status, st.nonce, hi.finalizedHead)
                  /\ rows' = [rows EXCEPT ![p] = n]
                  /\ domain' = IF new.events # <<>> THEN domain \cup {id} ELSE domain
                  /\ advanced' = IF n > 0 THEN advanced \cup {id} ELSE advanced
                  /\ result' = [result EXCEPT ![p] = "ok"]
                  /\ pc' = [pc EXCEPT ![p] = "idle"]
             ELSE /\ Fail(p, 1, err)
                  /\ domain' = AfterRollback(domain, id)
                  /\ rows' = [rows EXCEPT ![p] = -1]
                  /\ UNCHANGED <<status, hot_block, advanced>>
    /\ UNCHANGED <<isolationLevel, tables, info>>

NextHot == \E hi \in HotInfos : Reconcile(HotProc, hi)

\* A connected store holding the blocks above the seed head that an earlier
\* reconciliation left
InitHot ==
    /\ isolationLevel = "undefined"
    /\ tables = TRUE
    /\ status = <<SeedRow>>
    /\ hot_block \in {{}, {Block(0, "a")}, HeldBlocks}
    /\ domain = {}
    /\ advanced = {}
    /\ ops = 0
    /\ pc = [p \in Procs |-> "idle"]
    /\ op = [p \in Procs |-> "none"]
    /\ calls = [p \in Procs |-> 0]
    /\ info = [p \in Procs |-> NoInfo]
    /\ attempt = [p \in Procs |-> 0]
    /\ state = [p \in Procs |-> NoState]
    /\ found = [p \in Procs |-> -1]
    /\ cbCalls = [p \in Procs |-> 0]
    /\ rows = [p \in Procs |-> -1]
    /\ result = [p \in Procs |-> "none"]
    /\ hinfo = [p \in Procs |-> NoHotInfo]
    /\ events = [p \in Procs |-> <<>>]

SpecHot == InitHot /\ [][NextHot]_vars



\* ---------------------------------------------------------------- properties
IsError(r) == r \notin {"none", "pending", "ok"}
Done(p) == pc[p] = "idle" /\ result[p] \notin {"none", "pending"}
DoneTransact(p) == Done(p) /\ op[p] = "transact"
DoneConnect(p) == Done(p) /\ op[p] = "connect"
AttemptId(p) == <<p, calls[p], attempt[p]>>
HeadOf(st) == [height |-> st.height, hash |-> st.hash]

\* the step is an attempt of transact by p, from the call or from a retry
TransactStepOf(p) ==
    op'[p] = "transact" /\ (calls'[p] # calls[p] \/ attempt'[p] # attempt[p])
\* the step is the first part of connect by p
ConnectStepOf(p) == op'[p] = "connect" /\ calls'[p] # calls[p]
\* the step is the second part of connect by p
ConnectFinishOf(p) == pc[p] = "c_loaded" /\ pc'[p] = "idle"

\* C1: atomicity of transact.  The callback's rows of an attempt are committed
\* only together with a change of the status row made by that same attempt.
C1_DomainOnlyWithAdvance == domain \subseteq advanced

\* C2: of two transact calls that loaded the same state, both anchored on the
\* persisted head, at most one completes as a success.
C2_OneOfTwoSucceeds ==
    \A p, q \in Procs :
        ( /\ p # q
          /\ DoneTransact(p) /\ DoneTransact(q)
          /\ state[p] # NoState /\ state[p] = state[q]
          /\ info[p].prevHead = HeadOf(state[p])
          /\ info[q].prevHead = HeadOf(state[q]) )
        => ~(result[p] = "ok" /\ result[q] = "ok")

\* C3: an attempt whose conditional UPDATE affected zero rows ends in an error
\* and commits nothing.
C3_ZeroRowsIsError ==
    \A p \in Procs :
        (DoneTransact(p) /\ rows[p] = 0)
        => (IsError(result[p]) /\ AttemptId(p) \notin domain)

\* C4: a race failure reaches the caller only after the attempt was run again.
C4_RaceIsRetried ==
    \A p \in Procs :
        (DoneTransact(p) /\ result[p] \in {RACE_MSG, SERIALIZATION_MSG})
        => attempt[p] > 1

\* C5: a transact call that returns without error has committed the status row
\* (nextHead, loaded nonce + 1) together with the callback's rows.
C5_SuccessCommitsNextHead ==
    \A p \in Procs :
        (DoneTransact(p) /\ result[p] = "ok")
        => /\ rows[p] = 1
           /\ AttemptId(p) \in advanced
           /\ AttemptId(p) \in domain


BadNextHead(i) ==
    \/ i.nextHead.height <= i.prevHead.height
    \/ i.nextHead.hash = i.prevHead.hash

\* C6: transact with nextHead.height <= prevHead.height or equal hashes ends in
\* an error in every persisted state, without invoking the callback and without
\* changing the status row, the hot blocks or the callback's table.
C6_BadNextHeadFails ==
    [][\A p \in Procs :
        (TransactStepOf(p) /\ BadNextHead(info'[p]))
        => /\ pc'[p] = "idle"
           /\ IsError(result'[p])
           /\ cbCalls'[p] = 0
           /\ status' = status /\ hot_block' = hot_block /\ domain' = domain]_vars

\* a call whose prevHead is the persisted head and whose nextHead is bad has failed
C6_Witness ==
    \E p \in Procs :
        /\ DoneTransact(p) /\ BadNextHead(info[p])
        /\ info[p].prevHead = HeadOf(state[p])
        /\ <<status[1].height, status[1].hash>> = <<state[p].height, state[p].hash>>
        /\ result[p] = ASSERT_MSG /\ cbCalls[p] = 0

HeadMismatch(st, i) == st.hash # i.prevHead.hash \/ st.height # i.prevHead.height

C8_ConnectIdempotent ==
    \A p \in Procs :
        DoneConnect(p)
        => /\ result[p] = "ok"
           /\ found[p] = 0 => state[p] = MkState(SeedRow, <<>>)

\* C8 (amended): connect on a provisioned store changes no row and returns the
\* status row it read with the hot blocks; connect that read no status row
\* creates (-1, "0x", 0) and returns it with an empty top, unless another
\* process committed the row after this connect's SELECT: then it fails with
\* the duplicate-key error and changes nothing.
C8_ConnectIdempotentOrConflict ==
    [][\A p \in Procs :
        /\ (ConnectStepOf(p) /\ tables /\ Len(status) = 1)
           => /\ StatusRow(state'[p]) = status[1]
              /\ status' = status /\ hot_block' = hot_block /\ tables' = tables
        /\ (ConnectFinishOf(p) /\ found[p] > 0)
           => /\ result'[p] = "ok"
              /\ StatusRow(state'[p]) = StatusRow(state[p])
              /\ Len(state'[p].top) = Cardinality(hot_block)
              /\ \A k \in 1..Len(state'[p].top) : state'[p].top[k] \in hot_block
              /\ status' = status /\ hot_block' = hot_block /\ tables' = tables
              /\ domain' = domain
        /\ (ConnectFinishOf(p) /\ found[p] = 0 /\ Len(status) = 0)
           => /\ result'[p] = "ok"
              /\ state'[p] = MkState(SeedRow, <<>>)
              /\ status' = <<SeedRow>> /\ tables'
        /\ (ConnectFinishOf(p) /\ found[p] = 0 /\ Len(status) > 0)
           => /\ result'[p] = UNIQUE_MSG
              /\ status' = status /\ hot_block' = hot_block /\ tables' = tables]_vars

\* connect after a committed transact returned the advanced row, which is still
\* the persisted one
C8_Witness ==
    \E p \in Procs :
        /\ DoneConnect(p) /\ result[p] = "ok" /\ found[p] = 1
        /\ state[p].nonce = 1
        /\ status = <<StatusRow(state[p])>>

\* C9: the status table never holds two rows, it holds exactly one once a
\* connect has committed, and a transact attempt that finds no row fails on the
\* assertion without invoking the callback or updating.
C9_SingleStatusRow ==
    /\ Len(status) <= 1
    /\ (\E p \in Procs : op[p] = "connect" /\ result[p] = "ok") => Len(status) = 1
    /\ \A p \in Procs :
        (op[p] = "transact" /\ found[p] = 0)
        => /\ pc[p] = "idle" /\ result[p] = ASSERT_MSG
           /\ cbCalls[p] = 0 /\ rows[p] = -1

\* two first connects ran concurrently and left one row
C9_Witness ==
    \E p, q \in Procs :
        /\ p # q /\ DoneConnect(p) /\ DoneConnect(q)
        /\ found[p] = 0 /\ found[q] = 0
        /\ result[p] = "ok" /\ result[q] = UNIQUE_MSG
        /\ Len(status) = 1

\* the hot blocks' heights are head + 1, head + 2, ... without a gap
Contiguous(row, hot) ==
    {b.height : b \in hot} = (row.height + 1)..(row.height + Cardinality(hot))

\* C10: when the status row and the hot blocks read by a load do not form a
\* height-contiguous chain, transact fails with the continuity error before the
\* callback and without changing the status row, and connect fails with it too.
C10_BrokenChainRejected ==
    [][\A p \in Procs :
        /\ (TransactStepOf(p) /\ tables /\ Len(status) = 1
                /\ ~Contiguous(status[1], hot_block))
           => /\ pc'[p] = "idle" /\ result'[p] = CHAIN_MSG
              /\ cbCalls'[p] = 0
              /\ status' = status /\ domain' = domain
        /\ (ConnectFinishOf(p) /\ found[p] = 1
                /\ ~Contiguous(StatusRow(state[p]), hot_block))
           => /\ result'[p] = CHAIN_MSG
              /\ status' = status /\ tables' = tables]_vars

\* a broken chain was met by a transact and by a connect
C10_Witness ==
    \E p, q \in Procs :
        /\ DoneTransact(p) /\ result[p] = CHAIN_MSG /\ cbCalls[p] = 0
        /\ DoneConnect(q) /\ result[q] = CHAIN_MSG
        /\ Len(status) = 1 /\ ~Contiguous(status[1], hot_block)


\* C11 (as stated): the persisted nonce is the initial nonce (0 after the first
\* connect) plus the number of transact calls that completed successfully.
C11_NonceCountsSuccesses ==
    Len(status) = 1 => status[1].nonce = Cardinality(domain)

NonRaceErrors == {ASSERT_MSG, CHAIN_MSG, CB_MSG, NO_TABLE_MSG}

\* C12: a transact attempt that fails on a precondition, on an integrity
\* violation at load, or because the callback or the backend raised, ends the
\* call: one attempt, the callback invoked at most once.
C12_NonRaceNotRetried ==
    \A p \in Procs :
        (op[p] = "transact" /\ result[p] \in NonRaceErrors)
        => /\ pc[p] = "idle"
           /\ attempt[p] = 1
           /\ cbCalls[p] <= 1

\* one call ended by a raising callback, one by a bad nextHead, one attempt each
C12_Witness ==
    \E p, q \in Procs :
        /\ DoneTransact(p) /\ result[p] = CB_MSG /\ cbCalls[p] = 1 /\ attempt[p] = 1
        /\ DoneTransact(q) /\ result[q] = ASSERT_MSG /\ BadNextHead(info[q])
        /\ info[q].prevHead = HeadOf(state[q]) /\ cbCalls[q] = 0 /\ attempt[q] = 1

\* the step is one of p's transact call and ends an attempt with an error
FailStepOf(p) ==
    /\ op'[p] = "transact" /\ IsError(result'[p])
    /\ \/ TransactStepOf(p)
       \/ pc[p] \in {"t_cb", "t_update"} /\ pc'[p] \in {"idle", "t_retry"}

\* C13: a transact attempt that fails after its transaction was opened commits
\* nothing: the status row stays what it was and the callback's rows of that
\* attempt are not visible.
C13_FailedAttemptCommitsNothing ==
    [][\A p \in Procs :
        FailStepOf(p)
        => /\ status' = status /\ hot_block' = hot_block
           /\ domain' = domain /\ advanced' = advanced
           /\ <<p, calls'[p], attempt'[p]>> \notin domain']_vars

\* an attempt failed in updateStatus after its callback had written
C13_Witness ==
    \E p \in Procs :
        /\ DoneTransact(p) /\ result[p] = SERIALIZATION_MSG
        /\ cbCalls[p] = 1 /\ AttemptId(p) \notin domain
        /\ status # <<StatusRow(state[p])>>


\* the step is the updateStatus and commit of p's attempt
CommitStepOf(p) == pc[p] = "t_update" /\ pc'[p] = "idle" /\ result'[p] = "ok"

\* the step is a call of transactHot2 by p
ReconcileStepOf(p) == calls'[p] = calls[p] + 1 /\ op'[p] = "reconcile"

\* the elements of a sequence
Range(f) == {f[k] : k \in DOMAIN f}

\* C14 (as stated): a successful reconcile leaves the status head equal to
\* finalizedHead with the nonce raised by one, and as hot-block rows exactly
\* the elements of (held chain up to and including baseHead) ++ newBlocks that
\* are higher than finalizedHead; no held hot block above baseHead remains.
C14_ReconcileResult ==
    [][\A p \in Procs :
        (ReconcileStepOf(p) /\ result'[p] = "ok")
        => LET hi == hinfo'[p]
               chain == ChainOf(state'[p])
               upToBase == {b \in Range(chain) : b.height <= hi.baseHead.height}
           IN /\ status' = <<[height |-> hi.finalizedHead.height,
                              hash |-> hi.finalizedHead.hash,
                              nonce |-> state'[p].nonce + 1]>>
              /\ hot_block' = {b \in upToBase \cup Range(hi.newBlocks) :
                                  b.height > hi.finalizedHead.height}]_vars

IsCb(e) == e.kind = "cb"
IsInsert(e) == e.kind = "insert"

\* the callback slices and inserts in ev are those of the slicing rule for n
\* new blocks of which the first fe are final
SlicedAs(ev, n, fe) ==
    LET cbs == SelectSeq(ev, IsCb)
        ins == SelectSeq(ev, IsInsert)
    IN /\ \A j \in 0..(n - 1) :
            Cardinality({k \in DOMAIN cbs : cbs[k].beg <= j /\ j < cbs[k].end}) = 1
       /\ \A k \in DOMAIN cbs : cbs[k].beg >= 0 /\ cbs[k].end <= n
       /\ fe > 0 => Len(cbs) > 0 /\ cbs[1] = CbEvent(0, fe)
       /\ \A k \in DOMAIN cbs : (k > 1 \/ fe = 0) => cbs[k].end = cbs[k].beg + 1
       /\ \A k, l \in DOMAIN cbs : k < l => cbs[k].beg < cbs[l].beg
       /\ \A k \in DOMAIN ev :
            (IsCb(ev[k]) /\ ev[k].beg >= fe) => (k > 1 /\ ev[k - 1] = InsertEvent(ev[k].beg))
       /\ \A k \in DOMAIN ins : ins[k].beg >= fe
       /\ \A k, l \in DOMAIN ins : k # l => ins[k] # ins[l]

\* C15 (as stated): a reconcile attempt with new blocks that passes all the
\* checks calls the callback once for the finalized slice [0, finalizedEnd)
\* when it is not empty, then once per remaining index in ascending order,
\* each after the insert of that block; the slices cover every index of
\* newBlocks exactly once and no finalized block is inserted.
C15_CallbackSlicing ==
    [][\A p \in Procs :
        LET hi == hinfo'[p]
            chain == ChainOf(state'[p])
            fe == hi.finalizedHead.height - hi.newBlocks[1].height + 1
        IN (/\ ReconcileStepOf(p)
            /\ Len(hi.newBlocks) > 0
            /\ getState(tables, status, hot_block) = "ok"
            /\ ReconcileChecks(chain, hi) = "ok"
            /\ FinalCheck(chain, hi) = "ok")
           => SlicedAs(events'[p], Len(hi.newBlocks), IF fe > 0 THEN fe ELSE 0)]_vars


\* C16 (as stated): a successful transact from a persisted state whose hot
\* blocks continue the head leaves a state whose hot blocks continue the head.
C16_TransactKeepsContinuity ==
    [][\A p \in Procs :
        (CommitStepOf(p) /\ Len(status) = 1 /\ Contiguous(status[1], hot_block))
        => Contiguous(status'[1], hot_block')]_vars

\* C17: the persisted height never decreases, and every change of the
\* persisted head raises the height and changes the hash.
C17_MonotoneHead ==
    [][(Len(status) = 1 /\ status' # status)
        => /\ Len(status') = 1
           /\ status'[1].height > status[1].height
           /\ status'[1].hash # status[1].hash]_vars

\* a transact moved the head up, and the head is still where it put it
C17_Witness ==
    \E p \in Procs :
        /\ DoneTransact(p) /\ result[p] = "ok" /\ rows[p] = 1
        /\ HeadOf(status[1]) = info[p].nextHead
        /\ status[1].height > state[p].height

\* C18: every committed change of the status row is made by an attempt whose
\* prevHead is the head persisted just before the commit, and leads to that
\* attempt's nextHead; an attempt whose loaded row is no longer the persisted
\* one changes nothing.
C18_NoLostUpdate ==
    [][\A p \in Procs :
        /\ (op'[p] = "transact" /\ pc[p] = "t_update" /\ pc'[p] # "t_update"
                /\ status' # status)
           => /\ HeadOf(status[1]) = info[p].prevHead
              /\ status[1] = StatusRow(state[p])
              /\ HeadOf(status'[1]) = info[p].nextHead
        /\ (op'[p] = "transact" /\ pc[p] = "t_update" /\ pc'[p] # "t_update"
                /\ status # <<StatusRow(state[p])>>)
           => status' = status]_vars

\* two attempts loaded the same row; one advanced it, the other then reached
\* its update and the advancement stands
C18_Witness ==
    \E p, q \in Procs :
        /\ p # q /\ DoneTransact(p) /\ DoneTransact(q)
        /\ state[p] # NoState /\ state[p] = state[q]
        /\ rows[p] = 1 /\ cbCalls[q] = 1 /\ rows[q] <= 0
        /\ status = <<[height |-> info[p].nextHead.height,
                       hash |-> info[p].nextHead.hash,
                       nonce |-> state[p].nonce + 1]>>

====
